---- MODULE Spec2Model ----
(***************************************************************************)
(* Model of the HRRR point-ingestion pipeline of core/ingest.py:           *)
(* ingest() plans the S3 keys, then calls process_grib_file() for each     *)
(* key; process_grib_file() downloads the object to a temporary file,      *)
(* resolves the grid (through grid_cache), scans the messages, inserts the *)
(* extracted rows in one batch and removes the temporary file.             *)
(***************************************************************************)
EXTENDS Integers, Sequences, FiniteSets, TLC

\* ------------------------------------------------------------------ bounds

\* ingest() invocations against the same database file
MaxRuns == 2
\* the arguments of ingest() are drawn so that the plan has at most
\* MaxKeys keys
MaxKeys == 2
\* the forecast hours of the key-plan specification are 0..MaxHour
MaxHour == 2

\* ------------------------------------------------------------ plain helpers

Range(s) == {s[i] : i \in 1..Len(s)}

Min(S) == CHOOSE x \in S : \A y \in S : x <= y

\* mutant of FloorDiv24: rounding to the nearest day
RoundDiv24(a) == (a + 12) \div 24

\* Python's math.floor(a / 24) for an integer a
FloorDiv24(a) == a \div 24

\* --------------------------------------------------------------- geometry
\* Coordinates are whole multiples of 90 degrees, where the sine and the
\* cosine are the integers -1, 0, 1 and the unit-sphere embedding is exact.

Cos90(d) ==
    LET r == d % 360 IN
    CASE r = 0 -> 1 [] r = 90 -> 0 [] r = 180 -> -1 [] r = 270 -> 0

Sin90(d) ==
    LET r == d % 360 IN
    CASE r = 0 -> 0 [] r = 90 -> 1 [] r = 180 -> 0 [] r = 270 -> -1

latlon_to_xyz(lat, lon) ==
    << Cos90(lat) * Cos90(lon), Cos90(lat) * Sin90(lon), Sin90(lat) >>

\* squared Euclidean distance in the embedding (what KDTree.query minimises)
Dist2(p, q) ==
    (p[1] - q[1]) * (p[1] - q[1]) + (p[2] - q[2]) * (p[2] - q[2])
        + (p[3] - q[3]) * (p[3] - q[3])

\* mutant of AdjustLons: the longitudes are cached as the file gives them
AdjustLonsNone(lons) == lons

\* grid_lons_flat[grid_lons_flat > 180] -= 360
AdjustLons(lons) ==
    [i \in 1..Len(lons) |-> IF lons[i] > 180 THEN lons[i] - 360 ELSE lons[i]]

\* USER_TARGET_POINTS / the parsed target-points file: (latitude, longitude)
target_points == << <<0, 0>>, <<0, -90>> >>

target_points_xyz ==
    [i \in 1..Len(target_points) |->
        latlon_to_xyz(target_points[i][1], target_points[i][2])]

\* mutant of NearestSet: the first grid point, whatever the target
NearestSetFirstPoint(lats, lons, t) == {0}

\* The 0-based flat indices KDTree.query(target_points_xyz, k=1) may return
\* for one target: every grid point at minimal distance (a tie is broken
\* by the tree, not by this code).
NearestSet(lats, lons, t) ==
    LET d(i) == Dist2(latlon_to_xyz(lats[i], lons[i]), t)
        best == Min({d(i) : i \in 1..Len(lats)})
    IN  {i - 1 : i \in {j \in 1..Len(lats) : d(j) = best}}

\* all index arrays the query may return, one index per target point
NearestChoices(lats, lons) ==
    {ix \in [1..Len(target_points_xyz) -> 0..(Len(lats) - 1)] :
        \A i \in 1..Len(target_points_xyz) :
            ix[i] \in NearestSet(lats, lons, target_points_xyz[i])}

\* ------------------------------------------------------ catalog and objects

\* target_vars, the catalog ingest() is called with: user_name plus the
\* attributes a message must carry. The last entry declares a subset of
\* the attributes of the one before it, so the two overlap.
target_vars ==
    << [user_name |-> "surface_pressure",
        attrs |-> [shortName |-> "sp", level |-> 0]],
       [user_name |-> "temperature_2m",
        attrs |-> [shortName |-> "2t", level |-> 2]],
       [user_name |-> "temperature",
        attrs |-> [shortName |-> "2t"]] >>

\* A decoded message: readable tells whether codes_grib_new_from_file
\* returns a handle (FALSE: it raises); attrs are the defined keys.
Msg(readable, attrs, values, date, time, step) ==
    [readable |-> readable, attrs |-> attrs, values |-> values,
     date |-> date, time |-> time, step |-> step]

mP == Msg(TRUE, [shortName |-> "sp", level |-> 0], <<1000, 1001>>, 1, 600, 0)
mT == Msg(TRUE, [shortName |-> "2t", level |-> 2], <<270, 271>>, 1, 600, 1)
mCorrupt == Msg(FALSE, [shortName |-> "2t", level |-> 2], <<>>, 1, 600, 0)

\* An S3 object: first_ok tells whether the first message can be read at
\* all, meta_ok whether its grid keys can be read without an exception;
\* sig stands for the five keys of the grid id; lats/lons are the
\* 'latitudes'/'longitudes' arrays of the first message.
Obj(first_ok, meta_ok, sig, lats, lons, msgs) ==
    [first_ok |-> first_ok, meta_ok |-> meta_ok, sig |-> sig,
     lats |-> lats, lons |-> lons, msgs |-> msgs]

\* two grids with the same grid id (same template, Ni, Nj, first point)
GridA_lons == <<0, 270>>
GridB_lons == <<0, 90>>

FilePA == Obj(TRUE, TRUE, "0-2-1-0.0000-0.0000", <<0, 0>>, GridA_lons, <<mP>>)
FileTB == Obj(TRUE, TRUE, "0-2-1-0.0000-0.0000", <<0, 0>>, GridB_lons, <<mT>>)
FileTCorrupt ==
    Obj(TRUE, TRUE, "0-2-1-0.0000-0.0000", <<0, 0>>, GridA_lons, <<mT, mCorrupt>>)
FileMismatch == Obj(TRUE, TRUE, "0-1-1-0.0000-90.0000", <<0>>, <<90, 180>>, <<mT>>)
FileNoCoords == Obj(TRUE, TRUE, "0-0-0-0.0000-0.0000", <<>>, <<>>, <<mT>>)
FileBadMeta == Obj(TRUE, FALSE, "", <<0, 0>>, GridA_lons, <<mT>>)
FileEmpty == Obj(FALSE, TRUE, "", <<>>, <<>>, <<>>)

\* the floating-point NaN of a missing value (no measured value is
\* negative in the objects here)
NaN == -1

\* messages that exercise the matcher and the row extractor
mSuperset ==
    Msg(TRUE, [shortName |-> "sp", level |-> 0, paramId |-> 134],
        <<1010, 1011>>, 2, 1830, 3)
mNoLevel == Msg(TRUE, [shortName |-> "sp"], <<1020, 1021>>, 1, 600, 0)
mNoLevelT == Msg(TRUE, [shortName |-> "2t"], <<280, 281>>, 1, 600, 0)
mWrongLevel ==
    Msg(TRUE, [shortName |-> "sp", level |-> 5], <<1030, 1031>>, 1, 600, 0)
mLong == Msg(TRUE, [shortName |-> "2t", level |-> 2], <<5, 6, 7>>, 1, 600, 1)
mLongP == Msg(TRUE, [shortName |-> "sp", level |-> 0], <<7, 8, 9>>, 1, 600, 0)
mNaN == Msg(TRUE, [shortName |-> "sp", level |-> 0], <<NaN, 1041>>, 1, 600, 2)
mAllNaN == Msg(TRUE, [shortName |-> "2t", level |-> 2], <<NaN, NaN>>, 1, 600, 2)

\* messages on which a read fails: bad_keys are the keys whose read raises
\* (KeyValueNotFoundError, WrongTypeError or EncodingError for a declared
\* attribute; any exception for "values"); mBadTime carries a time field
\* that strptime rejects
mBadLevel ==
    [readable |-> TRUE, attrs |-> [shortName |-> "2t", level |-> 2],
     values |-> <<290, 291>>, date |-> 1, time |-> 600, step |-> 1,
     bad_keys |-> {"level"}]
mBadValues ==
    [readable |-> TRUE, attrs |-> [shortName |-> "sp", level |-> 0],
     values |-> <<1060, 1061>>, date |-> 1, time |-> 600, step |-> 0,
     bad_keys |-> {"values"}]
mBadTime ==
    Msg(TRUE, [shortName |-> "sp", level |-> 0], <<1050, 1051>>, 1, 2460, 0)

\* a grid whose flat order is the reverse of the target-point order
GridC_lons == <<270, 0>>

FileSuperset ==
    Obj(TRUE, TRUE, "0-2-1-0.0000-0.0000", <<0, 0>>, GridA_lons, <<mSuperset>>)
FileRejects ==
    Obj(TRUE, TRUE, "0-2-1-0.0000-0.0000", <<0, 0>>, GridA_lons,
        <<mNoLevel, mWrongLevel, mT>>)
FileNoLevelT ==
    Obj(TRUE, TRUE, "0-2-1-0.0000-0.0000", <<0, 0>>, GridA_lons, <<mNoLevelT>>)
FileLong ==
    Obj(TRUE, TRUE, "0-2-1-0.0000-0.0000", <<0, 0>>, GridA_lons, <<mLong, mP>>)
FileLongP ==
    Obj(TRUE, TRUE, "0-2-1-0.0000-0.0000", <<0, 0>>, GridA_lons, <<mLongP, mT>>)
FileNaN ==
    Obj(TRUE, TRUE, "0-2-1-0.0000-0.0000", <<0, 0>>, GridA_lons,
        <<mAllNaN, mNaN>>)
FileC ==
    Obj(TRUE, TRUE, "0-2-1-0.0000-270.0000", <<0, 0>>, GridC_lons,
        <<mT, mSuperset>>)
FileBadAttr ==
    Obj(TRUE, TRUE, "0-2-1-0.0000-0.0000", <<0, 0>>, GridA_lons,
        <<mBadLevel, mP>>)
FileBadExtract ==
    Obj(TRUE, TRUE, "0-2-1-0.0000-0.0000", <<0, 0>>, GridA_lons,
        <<mT, mBadTime, mBadValues, mSuperset>>)
\* the grid id of grid A, but coordinate arrays of different sizes
FileMismatchA ==
    Obj(TRUE, TRUE, "0-2-1-0.0000-0.0000", <<0>>, GridA_lons, <<mT>>)

\* one message that no catalog entry accepts
FileNoMatch ==
    Obj(TRUE, TRUE, "0-2-1-0.0000-0.0000", <<0, 0>>, GridA_lons,
        <<mWrongLevel>>)

Files ==
    {FilePA, FileTB, FileTCorrupt, FileMismatch, FileNoCoords, FileBadMeta,
     FileEmpty, FileMismatchA, FileNoMatch}

\* what the bucket holds under a key: an object, or nothing
Absent == [absent |-> TRUE]
Contents == Files \cup {Absent}

\* ------------------------------------------------- matching and extraction

\* the keys of the message whose read raises
ReadFails(msg) == IF "bad_keys" \in DOMAIN msg THEN msg.bad_keys ELSE {}

\* mutant of Matched: an attribute the message does not define is passed
\* over instead of rejecting the message
MatchedWhereDefined(target, msg) ==
    \A key \in DOMAIN target.attrs \cap DOMAIN msg.attrs :
        /\ key \notin ReadFails(msg)
        /\ msg.attrs[key] = target.attrs[key]

\* mutant of Matched: an attribute whose read raises is passed over
MatchedPassingReadErrors(target, msg) ==
    \A key \in DOMAIN target.attrs :
        /\ key \in DOMAIN msg.attrs
        /\ (key \in ReadFails(msg) \/ msg.attrs[key] = target.attrs[key])

\* lines 138-150: every declared attribute is defined on the message, its
\* read does not raise and its typed value equals the expected one
Matched(target, msg) ==
    \A key \in DOMAIN target.attrs :
        /\ key \in DOMAIN msg.attrs
        /\ key \notin ReadFails(msg)
        /\ msg.attrs[key] = target.attrs[key]

\* mutant of RunTime: hours and minutes out of range are carried over
RunTimeCarrying(date_val, time_val) ==
    date_val * 1440 + (time_val \div 100) * 60 + (time_val % 100)

\* strptime(f"{date_val}{time_val:04d}", "%Y%m%d%H%M"), in minutes; dates
\* are day numbers. -1 stands for the ValueError of an unparsable time.
RunTime(date_val, time_val) ==
    IF time_val < 0 \/ (time_val \div 100) > 23 \/ (time_val % 100) > 59
    THEN -1
    ELSE date_val * 1440 + (time_val \div 100) * 60 + (time_val % 100)

\* mutant of ValidTime: the step is taken for minutes
ValidTimeStepMinutes(run_dt_utc, step_val) == run_dt_utc + step_val

\* run_dt_utc + timedelta(hours=step_val)
ValidTime(run_dt_utc, step_val) == run_dt_utc + 60 * step_val

\* f"s3://{s3_bucket}/{s3_key}"
s3_bucket == "noaa-hrrr-bdp-pds"

\* mutant of SourcePath: the key alone
SourcePathKeyOnly(s3_key) == <<s3_key>>

SourcePath(s3_key) == <<"s3:", s3_bucket, s3_key>>

\* mutant of IsMissing: no value is taken for missing
IsMissingNever(point_val) == FALSE

\* line 170: np.isnan(point_val)
IsMissing(point_val) == point_val = NaN

\* mutant of SizeMismatch: the sizes are not compared
SizeMismatchNever(values_flat, grid_lats) == FALSE

\* line 156: values_flat.size != grid_lats.size
SizeMismatch(values_flat, grid_lats) == Len(values_flat) # Len(grid_lats)

\* mutant of PointRows: the rows carry the coordinates of the target points
RECURSIVE PointRowsTargetCoords(_, _, _, _, _)
PointRowsTargetCoords(i, msg, target_name, grid, s3_source_path) ==
    IF i > Len(grid.indices) THEN <<>>
    ELSE
        LET flat_idx == grid.indices[i]
            run_dt_utc == RunTime(msg.date, msg.time)
            row == [valid_time_utc |-> ValidTime(run_dt_utc, msg.step),
                    run_time_utc |-> run_dt_utc,
                    latitude |-> target_points[i][1],
                    longitude |-> target_points[i][2],
                    variable |-> target_name,
                    value |-> msg.values[flat_idx + 1],
                    source_s3 |-> s3_source_path]
        IN  (IF IsMissing(msg.values[flat_idx + 1]) THEN <<>> ELSE <<row>>)
                \o PointRowsTargetCoords(i + 1, msg, target_name, grid,
                                         s3_source_path)

\* lines 166-174: one row per target point with a value, in target-point
\* order
RECURSIVE PointRows(_, _, _, _, _)
PointRows(i, msg, target_name, grid, s3_source_path) ==
    IF i > Len(grid.indices) THEN <<>>
    ELSE
        LET flat_idx == grid.indices[i]
            run_dt_utc == RunTime(msg.date, msg.time)
            row == [valid_time_utc |-> ValidTime(run_dt_utc, msg.step),
                    run_time_utc |-> run_dt_utc,
                    latitude |-> grid.lats[flat_idx + 1],
                    longitude |-> grid.lons[flat_idx + 1],
                    variable |-> target_name,
                    value |-> msg.values[flat_idx + 1],
                    source_s3 |-> s3_source_path]
        IN  (IF IsMissing(msg.values[flat_idx + 1]) THEN <<>> ELSE <<row>>)
                \o PointRows(i + 1, msg, target_name, grid, s3_source_path)

\* lines 136-178 for one message: the catalog loop from entry t on, with
\* the names found so far. A size mismatch continues with the next entry;
\* an extraction ends the loop, and so does an error of codes_get_values
\* or of strptime, which line 176 catches.
RECURSIVE MatchFrom(_, _, _, _, _)
MatchFrom(t, msg, grid, s3_source_path, found) ==
    IF t > Len(target_vars) THEN [rows |-> <<>>, found |-> found]
    ELSE
        LET target == target_vars[t] IN
        IF ~Matched(target, msg)
        THEN MatchFrom(t + 1, msg, grid, s3_source_path, found)
        ELSE
            LET found2 == found \cup {target.user_name} IN
            IF "values" \in ReadFails(msg)
            THEN [rows |-> <<>>, found |-> found2]
            ELSE IF SizeMismatch(msg.values, grid.lats)
            THEN MatchFrom(t + 1, msg, grid, s3_source_path, found2)
            ELSE IF RunTime(msg.date, msg.time) = -1
            THEN [rows |-> <<>>, found |-> found2]
            ELSE [rows |-> PointRows(1, msg, target.user_name, grid,
                                     s3_source_path),
                  found |-> found2]

\* a handle is acquired (codes_grib_new_from_file) or released
\* (codes_release); 0 names the peek handle, m the handle of message m
Acquire(h) == <<"new", h>>
Release(h) == <<"release", h>>

\* lines 132 and 179-180: the handle of message m, released in the
\* finally clause of the loop body
MessageEvents(m) == <<Acquire(m), Release(m)>>

\* lines 123-189: the message loop from message m on. raised tells that
\* the loop ended in an exception, which the function re-raises.
RECURSIVE ScanFrom(_, _, _, _, _)
ScanFrom(m, msgs, grid, s3_source_path, acc) ==
    IF m > Len(msgs) THEN acc
    ELSE IF ~msgs[m].readable THEN [acc EXCEPT !.raised = TRUE]
    ELSE
        LET r == MatchFrom(1, msgs[m], grid, s3_source_path, acc.found) IN
        ScanFrom(m + 1, msgs, grid, s3_source_path,
                 [rows |-> acc.rows \o r.rows,
                  scanned |-> acc.scanned + 1,
                  found |-> r.found,
                  raised |-> FALSE,
                  log |-> acc.log \o MessageEvents(m)])

_extract_data_from_messages(file, grid, s3_source_path) ==
    ScanFrom(1, file.msgs, grid, s3_source_path,
             [rows |-> <<>>, scanned |-> 0, found |-> {}, raised |-> FALSE,
              log |-> <<>>])

\* ------------------------------------------------------------ the table

SamePK(r, q) ==
    /\ r.valid_time_utc = q.valid_time_utc
    /\ r.run_time_utc = q.run_time_utc
    /\ r.latitude = q.latitude
    /\ r.longitude = q.longitude
    /\ r.variable = q.variable

\* mutant of InsertRow: INSERT OR REPLACE, the new row wins
InsertRowReplace(tbl, row) ==
    {q \in tbl : ~SamePK(q, row)} \cup {row}

\* INSERT ... ON CONFLICT DO NOTHING of one row
InsertRow(tbl, row) ==
    IF \E q \in tbl : SamePK(q, row) THEN tbl ELSE tbl \cup {row}

\* executemany: the rows one after the other
RECURSIVE InsertRows(_, _)
InsertRows(tbl, rows) ==
    IF rows = <<>> THEN tbl
    ELSE InsertRows(InsertRow(tbl, Head(rows)), Tail(rows))

\* ------------------------------------------------------------- the state

VARIABLES
    run,            \* number of the current ingest() invocation
    args,           \* run_date (well-formed or not), num_hours, f_start, f_end
    pc,             \* position in ingest() / process_grib_file()
    exit,           \* how ingest() ends: "", "returned", "exit0", "exit1",
                    \* "interrupted"
    con,            \* the DuckDB connection: "none", "open", "closed"
    table,          \* the rows of the table (kept in the database file)
    bucket,         \* what S3 holds under each key
    temp_files,     \* names of the temporary files that exist on disk
    s3_keys_to_process,
    cursor,         \* 1-based position of the object loop in the plan
    grid_cache,     \* grid id -> [lats, lons, indices]
    totals,         \* the counters and targets_found of ingest()
    temp_filepath,  \* locals of process_grib_file
    grid,           \*   nearest_indices, grid_lats, grid_lons
    rows_to_insert,
    scan,           \*   messages_scanned_in_file, variables_found_in_file
    result,         \* the dictionary process_grib_file returns
    interrupted,    \* a KeyboardInterrupt is propagating
    \* history, read by the properties only
    calls,          \* keys process_grib_file was invoked with, this run
    dl,             \* outcome of the download of the current key
    pre,            \* table and grid_cache when the current call began
    builds,         \* grid id -> number of index builds, this run
    partial,        \* rows extracted before the message loop raised
    submitted,      \* batches handed to executemany in the current call
    remove_failed,  \* temporary files whose os.remove raised OSError
    rows_submitted, \* number of rows in successfully submitted batches
    last_grid,      \* key -> grid used by its last successful insert
    downloads_ok,   \* number of downloads that succeeded, this run
    config_error,   \* the configuration-level error of this run, or ""
    handle_log      \* handles acquired and released in the current call

vars ==
    << run, args, pc, exit, con, table, bucket, temp_files,
       s3_keys_to_process, cursor, grid_cache, totals, temp_filepath, grid,
       rows_to_insert, scan, result, interrupted, calls, dl, pre, builds,
       partial, submitted, remove_failed, rows_submitted, last_grid,
       downloads_ok, config_error, handle_log >>

ingestLocals ==
    << s3_keys_to_process, cursor, grid_cache, totals >>
fileLocals ==
    << temp_filepath, grid, rows_to_insert, scan, result >>
history ==
    << calls, dl, pre, builds, partial, submitted, remove_failed,
       rows_submitted, last_grid, downloads_ok, handle_log >>

\* ------------------------------------------------------------- the inputs

\* a key "hrrr.<run_date - i days>/conus/hrrr.t06z.wrfsfcf<hour>.grib2"
Key(i, hour) == <<i, hour>>

\* lines 338-350: the keys, run dates from the most recent back, forecast
\* hours ascending within one date
RECURSIVE HourKeys(_, _, _)
HourKeys(i, hour, f_end) ==
    IF hour > f_end THEN <<>>
    ELSE <<Key(i, hour)>> \o HourKeys(i, hour + 1, f_end)

\* mutant of RunKeys: the oldest run date first
RECURSIVE RunKeysOldestFirst(_, _, _, _)
RunKeysOldestFirst(i, num_runs_needed, f_start, f_end) ==
    IF i >= num_runs_needed THEN <<>>
    ELSE RunKeysOldestFirst(i + 1, num_runs_needed, f_start, f_end)
            \o HourKeys(i, f_start, f_end)

RECURSIVE RunKeys(_, _, _, _)
RunKeys(i, num_runs_needed, f_start, f_end) ==
    IF i >= num_runs_needed THEN <<>>
    ELSE HourKeys(i, f_start, f_end)
            \o RunKeys(i + 1, num_runs_needed, f_start, f_end)

PlanKeys(a) ==
    RunKeys(0, 1 + FloorDiv24(a.num_hours), a.f_start, a.f_end)

\* num_hours around the day boundary (no run, one run, two runs) and the
\* forecast hours
NumHoursChoices == {-1, 23, 24}
HourChoices == {0, 1, 2}

ArgChoices ==
    {a \in [run_date_ok : BOOLEAN, num_hours : NumHoursChoices,
            f_start : HourChoices, f_end : HourChoices] :
        Len(PlanKeys(a)) <= MaxKeys}

\* the arguments of the key-plan specification: num_hours from below
\* minus one day to two days, every pair of forecast hours
PlanNumHours == {-25, -1, 23, 24, 48}
PlanHours == 0..MaxHour

PlanArgs ==
    [run_date_ok : BOOLEAN, num_hours : PlanNumHours,
     f_start : PlanHours, f_end : PlanHours]

KeySpace ==
    {Key(i, hour) : i \in {0, 1, 2}, hour \in HourChoices \cup PlanHours}

\* What the surroundings of a run can do: the objects the bucket may hold
\* and the failures that may strike.
FullEnv ==
    [contents |-> Contents,
     faults |-> {"ClientError", "Exception", "connect_error", "create_error",
                 "insert_error", "remove_error"}]

Unseen == [unseen |-> TRUE]
EmptyMap == [x \in {} |-> 0]
NoGrid == [lats |-> <<>>, lons |-> <<>>, indices |-> <<>>]
NoResult == [messages_scanned |-> 0, rows_inserted |-> 0, status |-> "",
             variables_found_in_file |-> {}]
NoScan == [messages_scanned_in_file |-> 0, variables_found_in_file |-> {}]

ZeroTotals ==
    [total_rows_attempted_insert |-> 0,
     total_messages_scanned |-> 0,
     files_successfully_downloaded |-> 0,
     files_processed_ok |-> 0,
     files_skipped_no_grid |-> 0,
     files_not_found |-> 0,
     files_with_download_errors |-> 0,
     files_with_processing_errors |-> 0,
     targets_found |-> {}]

\* lines 297-308 and 216-220: the locals at the start of a run
FreshRun ==
    /\ pc' = "connect"
    /\ exit' = ""
    /\ con' = "none"
    /\ s3_keys_to_process' = <<>>
    /\ cursor' = 1
    /\ grid_cache' = EmptyMap
    /\ totals' = ZeroTotals
    /\ temp_filepath' = <<>>
    /\ grid' = NoGrid
    /\ rows_to_insert' = <<>>
    /\ scan' = NoScan
    /\ result' = NoResult
    /\ interrupted' = FALSE
    /\ calls' = <<>>
    /\ dl' = ""
    /\ builds' = EmptyMap
    /\ partial' = <<>>
    /\ submitted' = <<>>
    /\ rows_submitted' = 0
    /\ downloads_ok' = 0
    /\ config_error' = ""
    /\ handle_log' = <<>>

InitArgs(A) ==
    /\ run = 1
    /\ args \in A
    /\ pc = "connect"
    /\ exit = ""
    /\ con = "none"
    /\ table = {}
    /\ bucket = [k \in KeySpace |-> Unseen]
    /\ temp_files = {}
    /\ s3_keys_to_process = <<>>
    /\ cursor = 1
    /\ grid_cache = EmptyMap
    /\ totals = ZeroTotals
    /\ temp_filepath = <<>>
    /\ grid = NoGrid
    /\ rows_to_insert = <<>>
    /\ scan = NoScan
    /\ result = NoResult
    /\ interrupted = FALSE
    /\ calls = <<>>
    /\ dl = ""
    /\ pre = [table |-> {}, grid_cache |-> EmptyMap, last_grid |-> EmptyMap]
    /\ builds = EmptyMap
    /\ partial = <<>>
    /\ submitted = <<>>
    /\ remove_failed = {}
    /\ rows_submitted = 0
    /\ last_grid = EmptyMap
    /\ downloads_ok = 0
    /\ config_error = ""
    /\ handle_log = <<>>

Init == InitArgs(ArgChoices)

\* ------------------------------------------------------- ingest(): set-up

\* lines 310-327: connect and create the table. A duckdb.Error of connect
\* leaves con = None; one of CREATE TABLE leaves the connection open for
\* the finally clause.
\* mutant of SetupContinues: a failed CREATE TABLE is passed over
SetupContinuesUnlessNoConnection(outcome) == outcome # "connect_error"

\* lines 310-327 and 393-396: an exception of connect or of CREATE TABLE
\* leaves the try block
SetupContinues(outcome) == outcome = "ok"

Connect(E) ==
    /\ pc = "connect"
    /\ \E outcome \in {"ok"}
                    \cup (E.faults \cap {"connect_error", "create_error"}) :
        /\ con' = IF outcome = "connect_error" THEN "none" ELSE "open"
        /\ pc' = IF SetupContinues(outcome) THEN "plan" ELSE "finally"
        /\ exit' = IF SetupContinues(outcome) THEN "" ELSE "returned"
        /\ config_error' = IF outcome = "ok" THEN "" ELSE outcome
    /\ UNCHANGED << run, args, table, bucket, temp_files, ingestLocals,
                    fileLocals, interrupted, history >>

\* lines 335-362: a malformed run date exits with 1, an empty plan with 0
Plan ==
    /\ pc = "plan"
    /\ IF ~args.run_date_ok
       THEN /\ pc' = "finally"
            /\ exit' = "exit1"
            /\ config_error' = "run_date"
            /\ UNCHANGED s3_keys_to_process
       ELSE /\ s3_keys_to_process' = PlanKeys(args)
            /\ IF PlanKeys(args) = <<>>
               THEN /\ pc' = "finally" /\ exit' = "exit0"
                    /\ config_error' = "empty_plan"
               ELSE /\ pc' = "loop" /\ exit' = ""
                    /\ UNCHANGED config_error
    /\ UNCHANGED << run, args, con, table, bucket, temp_files, cursor,
                    grid_cache, totals, fileLocals, interrupted, history >>

\* lines 364-374 and 216-224: the loop takes the next key and calls
\* process_grib_file, which creates its temporary file
BeginFile ==
    /\ pc = "loop"
    /\ cursor <= Len(s3_keys_to_process)
    /\ calls' = Append(calls, s3_keys_to_process[cursor])
    /\ temp_filepath' = <<run, cursor>>
    /\ temp_files' = temp_files \cup {<<run, cursor>>}
    /\ grid' = NoGrid
    /\ rows_to_insert' = <<>>
    /\ scan' = NoScan
    /\ result' = NoResult
    /\ dl' = ""
    /\ pre' = [table |-> table, grid_cache |-> grid_cache,
               last_grid |-> last_grid]
    /\ partial' = <<>>
    /\ submitted' = <<>>
    /\ handle_log' = <<>>
    /\ pc' = "download"
    /\ UNCHANGED << run, args, exit, con, table, bucket, ingestLocals,
                    interrupted, builds, remove_failed, rows_submitted,
                    last_grid, downloads_ok, config_error >>

\* the loop is exhausted: on to the finally clause and the summary
EndLoop ==
    /\ pc = "loop"
    /\ cursor > Len(s3_keys_to_process)
    /\ pc' = "finally"
    /\ exit' = "returned"
    /\ UNCHANGED << run, args, con, table, bucket, temp_files, ingestLocals,
                    fileLocals, interrupted, history, config_error >>

\* ---------------------------------------------------- process_grib_file()

CurrentKey == s3_keys_to_process[cursor]

\* what download_file can do for a key: the object arrives, or a
\* ClientError (code NoSuchKey for an absent object, another code
\* otherwise), or an exception that is no ClientError (no route to the
\* endpoint, a full disk)
DownloadOutcomes(content, E) ==
    (IF content = Absent THEN {"NoSuchKey"} ELSE {"ok"})
        \cup (E.faults \cap {"ClientError", "Exception"})

Result(messages_scanned, rows_inserted, status, variables_found) ==
    [messages_scanned |-> messages_scanned, rows_inserted |-> rows_inserted,
     status |-> status, variables_found_in_file |-> variables_found]

\* mutant of ExceptResult: the NoSuchKey test is missing
ExceptResultAnyClientError(exc, sc, rows_inserted_for_file) ==
    CASE exc \in {"NoSuchKey", "ClientError"} ->
            Result(0, 0, "download_error", {})
      [] OTHER -> Result(sc.messages_scanned_in_file, rows_inserted_for_file,
                         "processing_error", sc.variables_found_in_file)

\* lines 278-287: the except clauses of process_grib_file
ExceptResult(exc, sc, rows_inserted_for_file) ==
    CASE exc = "NoSuchKey" -> Result(0, 0, "not_found", {})
      [] exc = "ClientError" -> Result(0, 0, "download_error", {})
      [] OTHER -> Result(sc.messages_scanned_in_file, rows_inserted_for_file,
                         "processing_error", sc.variables_found_in_file)

\* lines 225-227 (and the except clauses when the download raises)
Download(E) ==
    /\ pc = "download"
    /\ \E content \in (IF bucket[CurrentKey] = Unseen THEN E.contents
                       ELSE {bucket[CurrentKey]}) :
        /\ bucket' = [bucket EXCEPT ![CurrentKey] = content]
        /\ \E outcome \in DownloadOutcomes(content, E) :
            /\ dl' = outcome
            /\ downloads_ok' = downloads_ok + (IF outcome = "ok" THEN 1 ELSE 0)
            /\ IF outcome = "ok"
               THEN pc' = "grid" /\ UNCHANGED result
               ELSE /\ pc' = "cleanup"
                    /\ result' = ExceptResult(outcome, scan, 0)
    /\ UNCHANGED << run, args, exit, con, table, temp_files, ingestLocals,
                    temp_filepath, grid, rows_to_insert, scan, interrupted,
                    calls, pre, builds, partial, submitted, remove_failed,
                    rows_submitted, last_grid, config_error, handle_log >>

\* mutant of GridFailure: a failure empties the cache
GridFailureClearingCache(cache) ==
    [ok |-> FALSE, cache |-> [x \in {} |-> 0], built |-> FALSE]

GridFailure(cache) == [ok |-> FALSE, cache |-> cache, built |-> FALSE]

\* mutant of PeekEvents: no release when reading the grid keys raised
PeekEventsLeakOnError(file) ==
    IF ~file.first_ok THEN <<>>
    ELSE IF ~file.meta_ok THEN <<Acquire(0)>>
    ELSE <<Acquire(0), Release(0)>>

\* lines 45-48 and 97-102: the peek handle, released in the finally clause
\* when there is one
PeekEvents(file) ==
    IF file.first_ok THEN <<Acquire(0), Release(0)>> ELSE <<>>

\* mutant of ValidCoords: the sizes are not compared
ValidCoordsNonEmpty(lats, lons) == 0 < Len(lats)

\* line 63: 0 < grid_lats_arr.size == grid_lons_arr.size
ValidCoords(lats, lons) == 0 < Len(lats) /\ Len(lats) = Len(lons)

\* mutant of _get_grid_details: the cache is never consulted
_get_grid_details_uncached(file, cache) ==
    IF ~file.first_ok \/ ~file.meta_ok THEN {GridFailure(cache)}
    ELSE IF ValidCoords(file.lats, file.lons)
    THEN {[ok |-> TRUE,
           cache |-> (file.sig :> [lats |-> file.lats,
                                   lons |-> AdjustLons(file.lons),
                                   indices |-> ix]) @@ cache,
           built |-> TRUE] :
          ix \in NearestChoices(file.lats, AdjustLons(file.lons))}
    ELSE {GridFailure(cache)}

\* lines 36-102: what _get_grid_details can return for the downloaded
\* file and leave in the cache
_get_grid_details(file, cache) ==
    IF ~file.first_ok \/ ~file.meta_ok THEN {GridFailure(cache)}
    ELSE IF file.sig \notin DOMAIN cache
    THEN IF ValidCoords(file.lats, file.lons)
         THEN {[ok |-> TRUE,
                cache |-> (file.sig :> [lats |-> file.lats,
                                        lons |-> AdjustLons(file.lons),
                                        indices |-> ix]) @@ cache,
                built |-> TRUE] :
               ix \in NearestChoices(file.lats, AdjustLons(file.lons))}
         ELSE {GridFailure(cache)}
    ELSE {[ok |-> TRUE, cache |-> cache, built |-> FALSE]}

Count(f, k) == IF k \in DOMAIN f THEN f[k] ELSE 0

\* lines 229-233 and 267-269
ResolveGrid ==
    /\ pc = "grid"
    /\ \E g \in _get_grid_details(bucket[CurrentKey], grid_cache) :
        /\ grid_cache' = g.cache
        /\ builds' = IF g.built
                     THEN (bucket[CurrentKey].sig :>
                              (Count(builds, bucket[CurrentKey].sig) + 1))
                          @@ builds
                     ELSE builds
        /\ IF g.ok
           THEN /\ grid' = g.cache[bucket[CurrentKey].sig]
                /\ pc' = "extract"
                /\ UNCHANGED result
           ELSE /\ pc' = "cleanup"
                /\ result' = Result(0, 0, "skipped_no_grid", {})
                /\ UNCHANGED grid
    /\ handle_log' = handle_log \o PeekEvents(bucket[CurrentKey])
    /\ UNCHANGED << run, args, exit, con, table, bucket, temp_files,
                    s3_keys_to_process, cursor, totals, temp_filepath,
                    rows_to_insert, scan, interrupted, calls, dl, pre,
                    partial, submitted, remove_failed, rows_submitted,
                    last_grid, downloads_ok, config_error >>

\* mutant of ExtractOutcome: the rows read before the scan raised are kept
\* and inserted
ExtractOutcomePartialRows(r) ==
    [rows |-> r.rows,
     scan |-> IF r.raised THEN NoScan
              ELSE [messages_scanned_in_file |-> r.scanned,
                    variables_found_in_file |-> r.found],
     status |-> IF r.rows # <<>> THEN ""
                ELSE IF r.raised THEN "processing_error" ELSE "processed"]

\* mutant of ExtractOutcome: an object without rows gets a status of its
\* own
ExtractOutcomeNoDataStatus(r) ==
    IF r.raised
    THEN [rows |-> <<>>, scan |-> NoScan, status |-> "processing_error"]
    ELSE [rows |-> r.rows,
          scan |-> [messages_scanned_in_file |-> r.scanned,
                    variables_found_in_file |-> r.found],
          status |-> IF r.rows = <<>> THEN "no_data" ELSE ""]

\* lines 235-243, 258-265: the message scan. When it raises, the locals of
\* process_grib_file keep their initial values and the rows are dropped.
ExtractOutcome(r) ==
    IF r.raised
    THEN [rows |-> <<>>, scan |-> NoScan, status |-> "processing_error"]
    ELSE [rows |-> r.rows,
          scan |-> [messages_scanned_in_file |-> r.scanned,
                    variables_found_in_file |-> r.found],
          status |-> IF r.rows = <<>> THEN "processed" ELSE ""]

Extract ==
    /\ pc = "extract"
    /\ LET r == _extract_data_from_messages(bucket[CurrentKey], grid,
                                            SourcePath(CurrentKey))
           o == ExtractOutcome(r)
       IN  /\ rows_to_insert' = o.rows
           /\ scan' = o.scan
           /\ partial' = IF r.raised THEN r.rows ELSE <<>>
           /\ handle_log' = handle_log \o r.log
           /\ IF o.status = ""
              THEN pc' = "insert" /\ UNCHANGED result
              ELSE /\ pc' = "cleanup"
                   /\ result' = Result(o.scan.messages_scanned_in_file, 0,
                                       o.status,
                                       o.scan.variables_found_in_file)
    /\ UNCHANGED << run, args, exit, con, table, bucket, temp_files,
                    ingestLocals, temp_filepath, grid, interrupted, calls,
                    dl, pre, builds, submitted, remove_failed,
                    rows_submitted, last_grid, downloads_ok, config_error >>

\* mutant of RowsInserted: the rows that changed the table are counted
RowsApplied(tbl, rows) ==
    Cardinality(InsertRows(tbl, rows)) - Cardinality(tbl)

\* line 251: rows_inserted_for_file = len(rows_to_insert)
RowsInserted(tbl, rows) == Len(rows)

\* mutant of InsertFailureResult: the failed batch is counted
InsertFailureResultCounting(sc, rows) ==
    Result(sc.messages_scanned_in_file, Len(rows), "processing_error",
           sc.variables_found_in_file)

\* lines 255-257 and 271-276: executemany raised, rows_inserted_for_file
\* keeps its initial 0
InsertFailureResult(sc, rows) ==
    Result(sc.messages_scanned_in_file, 0, "processing_error",
           sc.variables_found_in_file)

\* lines 245-257: the batch insert. When executemany raises, the rows
\* before the failing one (n of them) may already be in the table.
InsertBatch(E) ==
    /\ pc = "insert"
    /\ submitted' = Append(submitted, rows_to_insert)
    /\ \E n \in {Len(rows_to_insert)}
                \cup (IF "insert_error" \in E.faults
                      THEN 0..(Len(rows_to_insert) - 1) ELSE {}) :
        IF n = Len(rows_to_insert)
        THEN /\ table' = InsertRows(table, rows_to_insert)
             /\ result' = Result(scan.messages_scanned_in_file,
                                 RowsInserted(table, rows_to_insert),
                                 "processed", scan.variables_found_in_file)
             /\ rows_submitted' = rows_submitted + Len(rows_to_insert)
             /\ last_grid' = (CurrentKey :> grid) @@ last_grid
        ELSE /\ table' = InsertRows(table, SubSeq(rows_to_insert, 1, n))
             /\ result' = InsertFailureResult(scan, rows_to_insert)
             /\ UNCHANGED << rows_submitted, last_grid >>
    /\ pc' = "cleanup"
    /\ UNCHANGED << run, args, exit, con, bucket, temp_files, ingestLocals,
                    temp_filepath, grid, rows_to_insert, scan, interrupted,
                    calls, dl, pre, builds, partial, remove_failed,
                    downloads_ok, config_error, handle_log >>

\* a KeyboardInterrupt while the file is being processed: no except clause
\* takes it, the finally clauses run
Interrupt ==
    /\ pc \in {"download", "grid", "extract", "insert"}
    /\ interrupted' = TRUE
    /\ pc' = "cleanup"
    /\ UNCHANGED << run, args, exit, con, table, bucket, temp_files,
                    ingestLocals, fileLocals, history, config_error >>

\* mutant of Cleanup: the file is removed on the normal return only, not
\* when an except clause returned
CleanupOnNormalReturnOnly(E) ==
    /\ pc = "cleanup"
    /\ temp_files' = IF dl = "ok" THEN temp_files \ {temp_filepath}
                     ELSE temp_files
    /\ UNCHANGED remove_failed
    /\ IF interrupted
       THEN pc' = "finally" /\ exit' = "interrupted"
       ELSE pc' = "aggregate" /\ UNCHANGED exit
    /\ UNCHANGED << run, args, con, table, bucket, ingestLocals, fileLocals,
                    interrupted, calls, dl, pre, builds, partial, submitted,
                    rows_submitted, last_grid, downloads_ok, config_error,
                    handle_log >>

\* lines 288-294: the finally clause. os.remove may raise OSError, which
\* is reported and leaves the file where it is.
Cleanup(E) ==
    /\ pc = "cleanup"
    /\ \E removed \in {TRUE} \cup {FALSE : x \in E.faults \cap {"remove_error"}} :
        IF removed
        THEN /\ temp_files' = temp_files \ {temp_filepath}
             /\ UNCHANGED remove_failed
        ELSE /\ remove_failed' = remove_failed \cup {temp_filepath}
             /\ UNCHANGED temp_files
    /\ IF interrupted
       THEN pc' = "finally" /\ exit' = "interrupted"
       ELSE pc' = "aggregate" /\ UNCHANGED exit
    /\ UNCHANGED << run, args, con, table, bucket, ingestLocals, fileLocals,
                    interrupted, calls, dl, pre, builds, partial, submitted,
                    rows_submitted, last_grid, downloads_ok, config_error,
                    handle_log >>

Bump(t, field) == [t EXCEPT ![field] = @ + 1]

\* mutant of CountStatus: a skipped object is counted as downloaded only
CountStatusSkippedUncounted(t, status) ==
    CASE status = "processed" ->
            Bump(Bump(t, "files_successfully_downloaded"), "files_processed_ok")
      [] status = "skipped_no_grid" -> Bump(t, "files_successfully_downloaded")
      [] status = "not_found" -> Bump(t, "files_not_found")
      [] status = "download_error" -> Bump(t, "files_with_download_errors")
      [] status = "processing_error" ->
            Bump(Bump(t, "files_successfully_downloaded"),
                 "files_with_processing_errors")
      [] OTHER -> t

\* lines 379-391: one category per status
CountStatus(t, status) ==
    CASE status = "processed" ->
            Bump(Bump(t, "files_successfully_downloaded"), "files_processed_ok")
      [] status = "skipped_no_grid" ->
            Bump(Bump(t, "files_successfully_downloaded"),
                 "files_skipped_no_grid")
      [] status = "not_found" -> Bump(t, "files_not_found")
      [] status = "download_error" -> Bump(t, "files_with_download_errors")
      [] status = "processing_error" ->
            Bump(Bump(t, "files_successfully_downloaded"),
                 "files_with_processing_errors")
      [] OTHER -> t

\* mutant of AfterResult: a failed object ends the loop
AfterResultStopOnError(res) ==
    IF res.status \in {"download_error", "processing_error"}
    THEN "finally" ELSE "loop"

\* where the loop goes once a result is accounted for
AfterResult(res) == "loop"

\* lines 375-391: the loop body after the call
Aggregate ==
    /\ pc = "aggregate"
    /\ totals' =
        CountStatus(
            [totals EXCEPT
                !.total_messages_scanned = @ + result.messages_scanned,
                !.total_rows_attempted_insert = @ + result.rows_inserted,
                !.targets_found = @ \cup result.variables_found_in_file],
            result.status)
    /\ cursor' = cursor + 1
    /\ pc' = AfterResult(result)
    /\ exit' = IF AfterResult(result) = "loop" THEN exit ELSE "returned"
    /\ UNCHANGED << run, args, con, table, bucket, temp_files,
                    s3_keys_to_process, grid_cache, fileLocals, interrupted,
                    history, config_error >>

\* the exit status of the command once ingest() has ended: sys.exit(1)
\* gives 1; sys.exit(0) passes main_cli's "except Exception" and gives 0;
\* after a return main_cli ends normally; a KeyboardInterrupt gives 130
ProcessStatus(e) ==
    CASE e = "exit1" -> 1
      [] e = "exit0" -> 0
      [] e = "returned" -> 0
      [] OTHER -> 130

\* mutant of Finally: the connection is closed when ingest returns, not
\* when it is left by sys.exit or an interrupt
FinallyOnReturnOnly ==
    /\ pc = "finally"
    /\ con' = IF con = "open" /\ exit = "returned" THEN "closed" ELSE con
    /\ pc' = "end"
    /\ UNCHANGED << run, args, exit, table, bucket, temp_files, ingestLocals,
                    fileLocals, interrupted, history, config_error >>

\* lines 397-400: the finally clause of ingest closes the connection
Finally ==
    /\ pc = "finally"
    /\ con' = IF con = "open" THEN "closed" ELSE con
    /\ pc' = "end"
    /\ UNCHANGED << run, args, exit, table, bucket, temp_files, ingestLocals,
                    fileLocals, interrupted, history, config_error >>

\* ingest() is invoked again with arguments from A, on the same database
\* file and bucket
NewRun(A) ==
    /\ pc = "end"
    /\ run < MaxRuns
    /\ run' = run + 1
    /\ args' \in A
    /\ FreshRun
    /\ pre' = [table |-> table, grid_cache |-> EmptyMap,
               last_grid |-> last_grid]
    /\ UNCHANGED << table, bucket, temp_files, remove_failed, last_grid >>

\* one step of a run in surroundings E
Step(E) ==
    \/ Connect(E)
    \/ Plan
    \/ BeginFile
    \/ EndLoop
    \/ Download(E)
    \/ ResolveGrid
    \/ Extract
    \/ InsertBatch(E)
    \/ Cleanup(E)
    \/ Aggregate
    \/ Finally

Next == Step(FullEnv) \/ Interrupt

\* One run of ingest() on an empty table, every object and every failure
\* possible.
Spec == Init /\ [][Next]_vars

\* One run over objects that exercise the matcher and the row extractor;
\* nothing fails, the plan is full.
ExtractEnv ==
    [contents |-> {FilePA, FileSuperset, FileRejects, FileNoLevelT, FileLong,
                   FileLongP, FileNaN, FileC, FileBadAttr, FileBadExtract},
     faults |-> {}]

InitExtract ==
    InitArgs({a \in ArgChoices : a.run_date_ok /\ Len(PlanKeys(a)) = MaxKeys})

NextExtract == Step(ExtractEnv)

SpecExtract == InitExtract /\ [][NextExtract]_vars

\* One run for every argument of the key plan; an object is there or not.
PlanEnv == [contents |-> {FilePA, Absent}, faults |-> {}]

InitPlan == InitArgs(PlanArgs)

NextPlan == Step(PlanEnv)

SpecPlan == InitPlan /\ [][NextPlan]_vars

\* Repeated runs on the same database file: the bucket holds objects with
\* a valid grid (or nothing), a download or an insert may fail, the plan
\* is full.
RerunEnv ==
    [contents |-> {FilePA, FileTB, FileTCorrupt, Absent},
     faults |-> {"ClientError", "insert_error"}]

RerunArgs ==
    {a \in ArgChoices : a.run_date_ok /\ Len(PlanKeys(a)) = MaxKeys}

InitRerun == Init /\ args \in RerunArgs

NextRerun == Step(RerunEnv) \/ NewRun(RerunArgs)

SpecRerun == InitRerun /\ [][NextRerun]_vars

\* ------------------------------------------- the standalone script main.py

\* main.py lines 16-50: the catalog of the script, a constant of the module
\* (the entries with distinct shortNames)
TARGET_VARIABLES == SubSeq(target_vars, 1, 2)

\* main.py lines 86-90: the counters of main()
MainZeroTotals ==
    [total_rows_inserted |-> 0,
     total_messages_scanned |-> 0,
     files_processed |-> 0,
     files_not_found |-> 0,
     targets_found |-> {}]

\* main.py lines 256-262: one row per target point; a missing value is not
\* skipped
RECURSIVE MainPointRows(_, _, _, _, _)
MainPointRows(i, msg, target_name, cached_grid, source_s3_path) ==
    IF i > Len(cached_grid.indices) THEN <<>>
    ELSE
        LET flat_idx == cached_grid.indices[i]
            run_dt_utc == RunTime(msg.date, msg.time)
            row == [valid_time_utc |-> ValidTime(run_dt_utc, msg.step),
                    run_time_utc |-> run_dt_utc,
                    latitude |-> cached_grid.lats[flat_idx + 1],
                    longitude |-> cached_grid.lons[flat_idx + 1],
                    variable |-> target_name,
                    value |-> msg.values[flat_idx + 1],
                    source_s3 |-> source_s3_path]
        IN  <<row>> \o MainPointRows(i + 1, msg, target_name, cached_grid,
                                     source_s3_path)

\* main.py lines 212-269 for one message: the catalog loop from entry t
\* on. counted is what line 263 adds to total_rows_inserted.
RECURSIVE MainMatchFrom(_, _, _, _, _)
MainMatchFrom(t, msg, cached_grid, source_s3_path, found) ==
    IF t > Len(TARGET_VARIABLES)
    THEN [rows |-> <<>>, found |-> found, counted |-> 0]
    ELSE
        LET target == TARGET_VARIABLES[t]
            found2 == found \cup {target.user_name}
        IN  IF ~Matched(target, msg)
            THEN MainMatchFrom(t + 1, msg, cached_grid, source_s3_path, found)
            ELSE IF "values" \in ReadFails(msg)
            THEN [rows |-> <<>>, found |-> found2, counted |-> 0]
            ELSE IF SizeMismatch(msg.values, cached_grid.lats)
            THEN MainMatchFrom(t + 1, msg, cached_grid, source_s3_path, found2)
            ELSE IF RunTime(msg.date, msg.time) = -1
            THEN [rows |-> <<>>, found |-> found2, counted |-> 0]
            ELSE [rows |-> MainPointRows(1, msg, target.user_name, cached_grid,
                                         source_s3_path),
                  found |-> found2,
                  counted |-> Len(cached_grid.indices)]

\* main.py lines 202-276: the message loop from message m on. A message
\* that cannot be decoded ends the loop (line 275); the rows and counters
\* collected so far stay.
RECURSIVE MainScanFrom(_, _, _, _, _)
MainScanFrom(m, msgs, cached_grid, source_s3_path, acc) ==
    IF m > Len(msgs) THEN acc
    ELSE IF ~msgs[m].readable THEN acc
    ELSE
        LET r == MainMatchFrom(1, msgs[m], cached_grid, source_s3_path, acc.found)
        IN  MainScanFrom(m + 1, msgs, cached_grid, source_s3_path,
                [rows |-> acc.rows \o r.rows,
                 scanned |-> acc.scanned + 1,
                 found |-> r.found,
                 counted |-> acc.counted + r.counted])

\* the variables main() does not have
mainUnused ==
    << run, args, scan, result, pre, builds, partial, rows_submitted,
       last_grid, downloads_ok, config_error, handle_log >>

\* main.py lines 95-112: connect and create the table
MainConnect(E) ==
    /\ pc = "connect"
    /\ \E outcome \in {"ok"}
                    \cup (E.faults \cap {"connect_error", "create_error"}) :
        /\ con' = IF outcome = "connect_error" THEN "none" ELSE "open"
        /\ pc' = IF outcome = "ok" THEN "m_plan" ELSE "m_finally"
    /\ UNCHANGED << exit, table, bucket, temp_files, s3_keys_to_process,
                    cursor, grid_cache, totals, temp_filepath, grid,
                    rows_to_insert, interrupted, calls, dl, submitted,
                    remove_failed, mainUnused >>

\* main.py lines 118-123: one key per forecast hour
MainPlan ==
    /\ pc = "m_plan"
    /\ s3_keys_to_process' = HourKeys(0, args.f_start, args.f_end)
    /\ pc' = "m_loop"
    /\ UNCHANGED << exit, con, table, bucket, temp_files, cursor, grid_cache,
                    totals, temp_filepath, grid, rows_to_insert, interrupted,
                    calls, dl, submitted, remove_failed, mainUnused >>

\* main.py lines 127-137: the loop takes the next key and creates its
\* temporary file; temp_filepath now names the new file
MainBeginKey ==
    /\ pc = "m_loop"
    /\ cursor <= Len(s3_keys_to_process)
    /\ calls' = Append(calls, s3_keys_to_process[cursor])
    /\ temp_filepath' = <<run, cursor>>
    /\ temp_files' = temp_files \cup {<<run, cursor>>}
    /\ grid' = NoGrid
    /\ rows_to_insert' = <<>>
    /\ dl' = ""
    /\ pc' = "m_download"
    /\ UNCHANGED << exit, con, table, bucket, s3_keys_to_process, cursor,
                    grid_cache, totals, interrupted, submitted,
                    remove_failed, mainUnused >>

\* the loop is exhausted
MainEndLoop ==
    /\ pc = "m_loop"
    /\ cursor > Len(s3_keys_to_process)
    /\ pc' = "m_finally"
    /\ UNCHANGED << exit, con, table, bucket, temp_files, s3_keys_to_process,
                    cursor, grid_cache, totals, temp_filepath, grid,
                    rows_to_insert, interrupted, calls, dl, submitted,
                    remove_failed, mainUnused >>

\* main.py lines 139-143 and 189-191: the download. Every exception, a
\* ClientError included, is taken by "except Exception as peek_err"; the
\* key is then skipped at line 287.
MainDownload(E) ==
    /\ pc = "m_download"
    /\ \E content \in (IF bucket[CurrentKey] = Unseen THEN E.contents
                       ELSE {bucket[CurrentKey]}) :
        /\ bucket' = [bucket EXCEPT ![CurrentKey] = content]
        /\ \E outcome \in DownloadOutcomes(content, E) :
            /\ dl' = outcome
            /\ IF outcome = "ok"
               THEN /\ totals' = [totals EXCEPT !.files_processed = @ + 1]
                    /\ pc' = "m_peek"
                    /\ UNCHANGED cursor
               ELSE /\ pc' = "m_loop"
                    /\ cursor' = cursor + 1
                    /\ UNCHANGED totals
    /\ UNCHANGED << exit, con, table, temp_files, s3_keys_to_process,
                    grid_cache, temp_filepath, grid, rows_to_insert,
                    interrupted, calls, submitted, remove_failed,
                    mainUnused >>

\* main.py lines 145-188: the grid id of the first message, the cache
\* look-up and the index build are those of _get_grid_details
main_peek(file, cache) == _get_grid_details(file, cache)

\* main.py lines 145-198: the peek; without indices the key is skipped
MainPeek ==
    /\ pc = "m_peek"
    /\ \E g \in main_peek(bucket[CurrentKey], grid_cache) :
        /\ grid_cache' = g.cache
        /\ IF g.ok
           THEN /\ grid' = g.cache[bucket[CurrentKey].sig]
                /\ pc' = "m_scan"
                /\ UNCHANGED cursor
           ELSE /\ pc' = "m_loop"
                /\ cursor' = cursor + 1
                /\ UNCHANGED grid
    /\ UNCHANGED << exit, con, table, bucket, temp_files, s3_keys_to_process,
                    totals, temp_filepath, rows_to_insert, interrupted,
                    calls, dl, submitted, remove_failed, mainUnused >>

\* main.py lines 199-276: the message loop, counting as it goes
MainScan ==
    /\ pc = "m_scan"
    /\ LET r == MainScanFrom(1, bucket[CurrentKey].msgs, grid,
                             SourcePath(CurrentKey),
                             [rows |-> <<>>, scanned |-> 0,
                              found |-> totals.targets_found,
                              counted |-> 0])
       IN  /\ rows_to_insert' = r.rows
           /\ totals' = [totals EXCEPT
                            !.total_messages_scanned = @ + r.scanned,
                            !.targets_found = r.found,
                            !.total_rows_inserted = @ + r.counted]
           /\ IF r.rows # <<>>
              THEN pc' = "m_insert" /\ UNCHANGED cursor
              ELSE pc' = "m_loop" /\ cursor' = cursor + 1
    /\ UNCHANGED << exit, con, table, bucket, temp_files, s3_keys_to_process,
                    grid_cache, temp_filepath, grid, interrupted, calls, dl,
                    submitted, remove_failed, mainUnused >>

\* main.py lines 278-285: the batch insert; line 282 counts the batch when
\* executemany returned
MainInsert(E) ==
    /\ pc = "m_insert"
    /\ submitted' = Append(submitted, rows_to_insert)
    /\ \E n \in {Len(rows_to_insert)}
                \cup (IF "insert_error" \in E.faults
                      THEN 0..(Len(rows_to_insert) - 1) ELSE {}) :
        IF n = Len(rows_to_insert)
        THEN /\ table' = InsertRows(table, rows_to_insert)
             /\ totals' = [totals EXCEPT
                            !.total_rows_inserted = @ + Len(rows_to_insert)]
        ELSE /\ table' = InsertRows(table, SubSeq(rows_to_insert, 1, n))
             /\ UNCHANGED totals
    /\ pc' = "m_loop"
    /\ cursor' = cursor + 1
    /\ UNCHANGED << exit, con, bucket, temp_files, s3_keys_to_process,
                    grid_cache, temp_filepath, grid, rows_to_insert,
                    interrupted, calls, dl, remove_failed, mainUnused >>

\* a KeyboardInterrupt while a key is being processed
MainInterrupt ==
    /\ pc \in {"m_download", "m_peek", "m_scan", "m_insert"}
    /\ interrupted' = TRUE
    /\ pc' = "m_finally"
    /\ UNCHANGED << exit, con, table, bucket, temp_files, s3_keys_to_process,
                    cursor, grid_cache, totals, temp_filepath, grid,
                    rows_to_insert, calls, dl, submitted, remove_failed,
                    mainUnused >>

\* main.py lines 299-308: the finally clause behind the loop closes the
\* connection and removes the file temp_filepath names, the one of the
\* last key begun. When no key was begun temp_filepath is unbound and the
\* clause raises UnboundLocalError.
MainFinally(E) ==
    /\ pc = "m_finally"
    /\ con' = IF con = "open" THEN "closed" ELSE con
    /\ IF calls = <<>>
       THEN /\ exit' = "unbound_local"
            /\ UNCHANGED << temp_files, remove_failed >>
       ELSE /\ exit' = IF interrupted THEN "interrupted" ELSE "returned"
            /\ \E removed \in {TRUE}
                    \cup {FALSE : x \in E.faults \cap {"remove_error"}} :
                IF removed
                THEN /\ temp_files' = temp_files \ {temp_filepath}
                     /\ UNCHANGED remove_failed
                ELSE /\ remove_failed' = remove_failed \cup {temp_filepath}
                     /\ UNCHANGED temp_files
    /\ pc' = "end"
    /\ UNCHANGED << table, bucket, s3_keys_to_process, cursor, grid_cache,
                    totals, temp_filepath, grid, rows_to_insert, interrupted,
                    calls, dl, submitted, mainUnused >>

\* what surrounds a run of main(): objects of every kind that matters to
\* the scan, failing downloads, inserts and removals
MainEnv ==
    [contents |-> {FilePA, FileTB, FileTCorrupt, FileBadMeta, FileNoMatch,
                   Absent},
     faults |-> {"ClientError", "create_error", "insert_error",
                 "remove_error"}]

\* FORECAST_HOURS_START and FORECAST_HOURS_END of the script
MainArgs ==
    {a \in [run_date_ok : {TRUE}, num_hours : {0},
            f_start : HourChoices, f_end : HourChoices] :
        Len(HourKeys(0, a.f_start, a.f_end)) <= MaxKeys}

InitMain ==
    /\ run = 1
    /\ args \in MainArgs
    /\ pc = "connect"
    /\ exit = ""
    /\ con = "none"
    /\ table = {}
    /\ bucket = [k \in KeySpace |-> Unseen]
    /\ temp_files = {}
    /\ s3_keys_to_process = <<>>
    /\ cursor = 1
    /\ grid_cache = EmptyMap
    /\ totals = MainZeroTotals
    /\ temp_filepath = <<>>
    /\ grid = NoGrid
    /\ rows_to_insert = <<>>
    /\ scan = NoScan
    /\ result = NoResult
    /\ interrupted = FALSE
    /\ calls = <<>>
    /\ dl = ""
    /\ pre = [table |-> {}, grid_cache |-> EmptyMap, last_grid |-> EmptyMap]
    /\ builds = EmptyMap
    /\ partial = <<>>
    /\ submitted = <<>>
    /\ remove_failed = {}
    /\ rows_submitted = 0
    /\ last_grid = EmptyMap
    /\ downloads_ok = 0
    /\ config_error = ""
    /\ handle_log = <<>>

NextMain ==
    \/ MainConnect(MainEnv)
    \/ MainPlan
    \/ MainBeginKey
    \/ MainEndLoop
    \/ MainDownload(MainEnv)
    \/ MainPeek
    \/ MainScan
    \/ MainInsert(MainEnv)
    \/ MainInterrupt
    \/ MainFinally(MainEnv)

SpecMain == InitMain /\ [][NextMain]_vars

\* ============================================================ properties

InCall == pc \in {"download", "grid", "extract", "insert", "cleanup"}
Returned == pc \in {"cleanup", "aggregate"} /\ ~interrupted
PKUnique(tbl) == \A r \in tbl : \A q \in tbl : SamePK(r, q) => r = q

\* C1: process_grib_file is invoked once for each planned key, in plan
\* order: the calls made so far are always the first keys of the plan, the
\* loop stands just behind the last call, and a run that is not
\* interrupted ends only when every planned key has been called, whatever
\* the results of the earlier keys were.
C1_EveryPlannedKeyInOrder ==
    /\ Len(calls) <= Len(s3_keys_to_process)
    /\ calls = SubSeq(s3_keys_to_process, 1, Len(calls))
    /\ (pc = "loop" => Len(calls) = cursor - 1)
    /\ (InCall \/ pc = "aggregate" => Len(calls) = cursor)
    /\ (exit \in {"returned", "exit0", "exit1"} => calls = s3_keys_to_process)

\* C1 witness: a run ended after two calls, the objects having failed in
\* different ways
C1_Witness ==
    /\ pc = "end" /\ exit = "returned"
    /\ Len(calls) = 2
    /\ totals.files_with_download_errors = 1
    /\ totals.files_with_processing_errors = 1

\* C2 (as claimed): when the message loop raises after rows were
\* extracted, the status is processing_error and the rows extracted so far
\* are handed to the table.
C2_PartialRowsSubmitted ==
    (Returned /\ partial # <<>>) =>
        /\ result.status = "processing_error"
        /\ submitted = <<partial>>

\* C3 (as claimed): a failed download is classified not_found when the
\* object is absent and download_error otherwise, and is never counted as
\* a successful download.
C3_DownloadFailureClassified ==
    /\ (Returned /\ dl \in {"NoSuchKey", "ClientError", "Exception"}) =>
            result.status = (IF dl = "NoSuchKey" THEN "not_found"
                             ELSE "download_error")
    /\ (pc = "loop" => totals.files_successfully_downloaded = downloads_ok)

\* C4: a fetch that reports "not found" gives status not_found with zero
\* rows, zero messages and no variables, leaves the table and the grid
\* cache as they were when the call began, and the loop goes on behind
\* this key.
C4_NotFound ==
    /\ (dl = "NoSuchKey" /\ pc \in {"cleanup", "aggregate", "loop"}) =>
            /\ result = Result(0, 0, "not_found", {})
            /\ table = pre.table
            /\ grid_cache = pre.grid_cache
            /\ submitted = <<>>
    /\ (dl = "NoSuchKey" /\ pc = "loop") =>
            /\ exit = ""
            /\ cursor = Len(calls) + 1

\* C4 witness: the key after a not-found key is being processed
C4_Witness ==
    /\ pc = "grid" /\ cursor = 2
    /\ totals.files_not_found = 1
    /\ bucket[s3_keys_to_process[1]] = Absent

\* the downloaded object of the current key cannot be resolved: its first
\* message is unreadable, reading the grid raises, or its grid id is not
\* cached and its coordinate arrays are empty or differ in length
GridUnresolvable ==
    LET f == bucket[CurrentKey] IN
    \/ ~f.first_ok
    \/ ~f.meta_ok
    \/ /\ f.sig \notin DOMAIN pre.grid_cache
       /\ (Len(f.lats) = 0 \/ Len(f.lons) = 0 \/ Len(f.lats) # Len(f.lons))

\* C5: when grid resolution fails the status is skipped_no_grid, no
\* message is scanned, no row is inserted (the table is as it was), and
\* the loop goes on behind this key.
C5_GridFailureSkips ==
    /\ (Returned /\ dl = "ok" /\ GridUnresolvable) =>
            /\ result = Result(0, 0, "skipped_no_grid", {})
            /\ table = pre.table
            /\ submitted = <<>>
    /\ (pc = "loop" /\ result.status = "skipped_no_grid") =>
            /\ exit = ""
            /\ cursor = Len(calls) + 1
            /\ table = pre.table

\* C5 witness: the key after an object with mismatched coordinate arrays
\* is being processed
C5_Witness ==
    /\ pc = "grid" /\ cursor = 2
    /\ totals.files_skipped_no_grid = 1
    /\ bucket[s3_keys_to_process[1]] = FileMismatch

\* C6 (as claimed): the temporary file is removed on every exit path: no
\* temporary file exists outside a call, and at most one at any time.
C6_TempFileAlwaysRemoved ==
    /\ Cardinality(temp_files) <= 1
    /\ (~InCall => temp_files = {})

\* C6 (amended): every exit path of process_grib_file runs the removal;
\* a temporary file that exists is the one of the call in progress or one
\* whose os.remove raised OSError.
C6_TempFileRemovedUnlessRemoveFails ==
    /\ (InCall => temp_files \subseteq remove_failed \cup {temp_filepath})
    /\ (~InCall => temp_files \subseteq remove_failed)

\* C6 witness: the second key is being downloaded after the first one
\* failed to download, and only the second key's file exists
C6_Witness ==
    /\ pc = "download" /\ cursor = 2
    /\ totals.files_with_download_errors = 1
    /\ temp_files = {temp_filepath}

\* C7: within a run the index is built at most once per grid id (exactly
\* once for each cached one), and an object whose grid id was cached when
\* its call began gets the cached arrays and leaves the cache as it was.
C7_IndexBuiltOncePerGridId ==
    /\ DOMAIN builds = DOMAIN grid_cache
    /\ \A sig \in DOMAIN builds : builds[sig] = 1
    /\ (pc \in {"extract", "insert"}
            /\ bucket[CurrentKey].sig \in DOMAIN pre.grid_cache) =>
            /\ grid = pre.grid_cache[bucket[CurrentKey].sig]
            /\ grid_cache = pre.grid_cache

\* C7 witness: the second object has the grid id the first one cached
C7_Witness ==
    /\ pc = "extract" /\ cursor = 2
    /\ bucket[CurrentKey].sig \in DOMAIN pre.grid_cache
    /\ bucket[CurrentKey] # bucket[s3_keys_to_process[1]]

\* C8: the table never holds two rows with the same primary key, and
\* every row that was in the table when a call began is still there,
\* value and source unchanged.
C8_PrimaryKeyKeepsFirstRow ==
    /\ PKUnique(table)
    /\ pre.table \subseteq table

\* C8 witness: a batch was inserted without error although one of its rows
\* has the primary key of an existing row with another source
C8_Witness ==
    /\ pc = "cleanup" /\ result.status = "processed"
    /\ \E r \in Range(rows_to_insert) : \E q \in pre.table :
            SamePK(r, q) /\ r.source_s3 # q.source_s3

\* C9 (as claimed): inserting the rows of a key whose rows were inserted
\* before (in this run or an earlier one) leaves the table unchanged.
C9_ReprocessingAddsNothing ==
    [][(pc = "insert" /\ CurrentKey \in DOMAIN last_grid) => table' = table]_vars

\* C9 (amended): inserting the rows of a key whose rows were inserted
\* before leaves the table unchanged when the grid cache gives the object
\* the same coordinates and indices as in the earlier pass.
C9_ReprocessingSameGridAddsNothing ==
    [][(pc = "insert" /\ CurrentKey \in DOMAIN last_grid
            /\ last_grid[CurrentKey] = grid) => table' = table]_vars

\* C9 witness: a key was processed a second time with the same grid, and
\* the table is as it was before the second pass
C9_Witness ==
    /\ pc = "cleanup" /\ result.status = "processed"
    /\ rows_to_insert # <<>>
    /\ CurrentKey \in DOMAIN pre.last_grid
    /\ pre.last_grid[CurrentKey] = grid
    /\ table = pre.table

\* C10: after a successful batch insert rows_inserted is the size of the
\* batch, and outside a call the run total of rows attempted is the
\* number of rows in the batches submitted successfully.
C10_RowsInsertedIsBatchSize ==
    /\ (pc \in {"cleanup", "aggregate"} /\ result.status = "processed"
            /\ submitted # <<>>) =>
            result.rows_inserted = Len(submitted[1])
    /\ (pc \in {"loop", "finally", "end"} =>
            totals.total_rows_attempted_insert = rows_submitted)

\* C10 witness: a batch counted in full although some of its rows collided
C10_Witness ==
    /\ pc = "loop" /\ result.status = "processed"
    /\ result.rows_inserted > Cardinality(table) - Cardinality(pre.table)
    /\ totals.total_rows_attempted_insert > Cardinality(table)

\* ------------------------------------------- matching and extraction claims

CurrentFile == bucket[CurrentKey]

\* the extraction step of the current call has run to its end
Extracted ==
    /\ pc \in {"cleanup", "aggregate"}
    /\ ~interrupted
    /\ dl = "ok"
    /\ grid # NoGrid

AllReadable(file) == \A m \in 1..Len(file.msgs) : file.msgs[m].readable

\* the message loop went through the whole file
ScanDone == pc = "insert" \/ (Extracted /\ AllReadable(CurrentFile))

\* the attributes a catalog entry declares, and what it is to carry them
Declared(target) == DOMAIN target.attrs
Accepts(target, msg) ==
    /\ Declared(target) \subseteq DOMAIN msg.attrs
    /\ Declared(target) \cap ReadFails(msg) = {}
    /\ [key \in Declared(target) |-> msg.attrs[key]] = target.attrs

\* position of the first catalog entry that accepts the message, 0 if none
FirstAccepting(msg) ==
    LET A == {t \in 1..Len(target_vars) : Accepts(target_vars[t], msg)}
    IN  IF A = {} THEN 0 ELSE Min(A)

\* C11: a catalog entry is matched exactly when the message defines every
\* attribute the entry declares with the expected value: every name found
\* in a file is the name of an entry that accepts one of its messages,
\* the first entry accepting a message is always found, and every row
\* carries the name of the first entry accepting the message its value
\* comes from.
C11_MatchIffAllDeclaredAttributesEqual ==
    ScanDone =>
        LET msgs == CurrentFile.msgs IN
        /\ \A name \in scan.variables_found_in_file :
                \E t \in 1..Len(target_vars) : \E m \in 1..Len(msgs) :
                    /\ target_vars[t].user_name = name
                    /\ Accepts(target_vars[t], msgs[m])
        /\ \A m \in 1..Len(msgs) :
                FirstAccepting(msgs[m]) # 0 =>
                    target_vars[FirstAccepting(msgs[m])].user_name
                        \in scan.variables_found_in_file
        /\ \A r \in Range(rows_to_insert) :
                \E m \in 1..Len(msgs) :
                    /\ r.value \in Range(msgs[m].values)
                    /\ FirstAccepting(msgs[m]) # 0
                    /\ r.variable =
                        target_vars[FirstAccepting(msgs[m])].user_name

\* C11 witness: after an object whose messages lacking an attribute or
\* carrying another value were rejected (only its last message was
\* found), a message with an attribute more than declared gave rows
C11_Witness ==
    /\ pc = "insert" /\ cursor = 2
    /\ bucket[s3_keys_to_process[1]] = FileRejects
    /\ totals.targets_found = {"temperature_2m"}
    /\ totals.total_messages_scanned = 3
    /\ CurrentFile = FileSuperset
    /\ \A i \in 1..Len(rows_to_insert) :
            rows_to_insert[i].variable = "surface_pressure"
    /\ Len(rows_to_insert) = 2

\* C12 (as claimed): a message adds at most one name to the names found,
\* the name of the first catalog entry that accepts it, also when its
\* values have the wrong size.
C12_OneNamePerMessage ==
    ScanDone =>
        scan.variables_found_in_file =
            {target_vars[FirstAccepting(CurrentFile.msgs[m])].user_name :
                m \in {k \in 1..Len(CurrentFile.msgs) :
                            FirstAccepting(CurrentFile.msgs[k]) # 0}}

\* the message's value array has the size of the grid's coordinate arrays
SizeFits(msg) == Len(msg.values) = Len(grid.lats)

\* the time field is a time of day, hours before minutes
TimeParses(msg) ==
    (msg.time \div 100) \in 0..23 /\ (msg.time % 100) \in 0..59

\* the message is one that rows are extracted from
Extractable(msg) ==
    /\ FirstAccepting(msg) # 0
    /\ "values" \notin ReadFails(msg)
    /\ SizeFits(msg)
    /\ TimeParses(msg)

\* the value of the message at the grid point resolved for target i
ValueAt(msg, i) == msg.values[grid.indices[i] + 1]

\* C13: a matched message whose value array has another size than the
\* grid gives no row and no error: all messages of the file are scanned,
\* the status is processed unless the batch insert itself failed, and the
\* messages behind it still give their rows.
C13_SizeMismatchYieldsNoRows ==
    (Extracted /\ AllReadable(CurrentFile)) =>
        LET msgs == CurrentFile.msgs IN
        \A m \in 1..Len(msgs) :
            (FirstAccepting(msgs[m]) # 0 /\ ~SizeFits(msgs[m])) =>
                /\ \A r \in Range(rows_to_insert) :
                        r.value \notin Range(msgs[m].values)
                /\ scan.messages_scanned_in_file = Len(msgs)
                /\ result.messages_scanned = Len(msgs)
                /\ (result.status = "processed" \/ submitted # <<>>)
                /\ \A k \in (m + 1)..Len(msgs) :
                        Extractable(msgs[k]) =>
                            \E r \in Range(rows_to_insert) :
                                r.value \in Range(msgs[k].values)

\* C13 witness: an object whose first message has three values on a
\* two-point grid was processed, and the message behind it gave two rows
C13_Witness ==
    /\ pc = "cleanup" /\ result.status = "processed"
    /\ CurrentFile = FileLongP
    /\ result.messages_scanned = 2
    /\ result.rows_inserted = 2

Described(rows) ==
    [i \in 1..Len(rows) |->
        [variable |-> rows[i].variable, value |-> rows[i].value,
         source_s3 |-> rows[i].source_s3]]

HasValue(r) == r.value # NaN

\* one row per target point with a value, in target-point order
RowsOfMessage(msg) ==
    IF ~Extractable(msg) THEN <<>>
    ELSE SelectSeq(
            [i \in 1..Len(target_points) |->
                [variable |-> target_vars[FirstAccepting(msg)].user_name,
                 value |-> ValueAt(msg, i),
                 source_s3 |-> <<"s3:", "noaa-hrrr-bdp-pds", CurrentKey>>]],
            HasValue)

RECURSIVE RowsFromMessage(_)
RowsFromMessage(m) ==
    IF m > Len(CurrentFile.msgs) THEN <<>>
    ELSE RowsOfMessage(CurrentFile.msgs[m]) \o RowsFromMessage(m + 1)

\* C15: the rows of a file are, message after message, one row for each
\* target point with a value, in target-point order, with the name of the
\* matched entry, the value at the point's resolved index and the locator
\* s3://<bucket>/<key>; a message never gives more rows than there are
\* target points.
C15_OneRowPerTargetPointInOrder ==
    ScanDone =>
        /\ Described(rows_to_insert) = RowsFromMessage(1)
        /\ Len(rows_to_insert) <=
                Len(target_points)
                    * Cardinality({m \in 1..Len(CurrentFile.msgs) :
                                    Extractable(CurrentFile.msgs[m])})

\* C15 witness: on a grid stored in the reverse of the target-point
\* order two messages gave four rows, the first row being the one of the
\* first target point (the second grid point)
C15_Witness ==
    /\ pc = "insert"
    /\ CurrentFile = FileC
    /\ grid.indices = <<1, 0>>
    /\ Len(rows_to_insert) = 4
    /\ rows_to_insert[1].value = 271 /\ rows_to_insert[1].longitude = 0
    /\ rows_to_insert[2].value = 270 /\ rows_to_insert[2].longitude = -90
    /\ rows_to_insert[3].variable = "surface_pressure"

\* C16: every row has the run time of its message, the minute of the day
\* of the 4-digit time field on the day of the date field, and a valid
\* time step hours later: the valid time is never before the run time
\* when the step is not negative, and equals it exactly when the step is 0.
C16_ValidTimeIsRunTimePlusStep ==
    ScanDone =>
        \A r \in Range(rows_to_insert) :
            \E m \in 1..Len(CurrentFile.msgs) :
                LET msg == CurrentFile.msgs[m] IN
                /\ r.value \in Range(msg.values)
                /\ r.run_time_utc =
                        msg.date * 1440 + (msg.time \div 100) * 60
                            + (msg.time % 100)
                /\ r.valid_time_utc = r.run_time_utc + 60 * msg.step
                /\ (msg.step >= 0 => r.valid_time_utc >= r.run_time_utc)
                /\ (r.valid_time_utc = r.run_time_utc <=> msg.step = 0)

\* C16 witness: rows of a message of 18:30 on day 2 with step 3 are about
\* to be inserted into a table that holds rows of a message with step 0
C16_Witness ==
    /\ pc = "insert"
    /\ \E r \in Range(rows_to_insert) :
            /\ r.run_time_utc = 2 * 1440 + 18 * 60 + 30
            /\ r.valid_time_utc = r.run_time_utc + 180
    /\ \E q \in table : q.valid_time_utc = q.run_time_utc

\* ------------------------------------------------------- key plan claims

\* the plan of this run has been computed
Planned ==
    /\ args.run_date_ok
    /\ pc \notin {"connect", "plan"}
    /\ config_error \notin {"connect_error", "create_error"}

\* the whole number q with 24 q <= n < 24 (q + 1)
Floor24(n) == CHOOSE q \in -10..10 : 24 * q <= n /\ n < 24 * (q + 1)

runCount == 1 + Floor24(args.num_hours)
hourCount == args.f_end - args.f_start + 1

PlannedPairs ==
    {Key(i, hour) : i \in 0..(runCount - 1), hour \in args.f_start..args.f_end}

PairwiseDistinct(keys) ==
    \A p \in 1..Len(keys) : \A q \in 1..Len(keys) :
        keys[p] = keys[q] => p = q

\* C17 (as claimed): the plan has exactly
\* (1 + floor(num_hours / 24)) * (f_end - f_start + 1) keys, one for each
\* pair of a run date and a forecast hour, all distinct.
C17_PlanSizeIsProduct ==
    Planned =>
        /\ Len(s3_keys_to_process) = runCount * hourCount
        /\ Range(s3_keys_to_process) = PlannedPairs
        /\ PairwiseDistinct(s3_keys_to_process)

AtLeast0(n) == IF n < 0 THEN 0 ELSE n

\* C17 (amended): the plan has one key for each pair of a run date and a
\* forecast hour, all distinct, which are
\* max(0, 1 + floor(num_hours / 24)) * max(0, f_end - f_start + 1) keys.
C17_PlanSizeIsProductOfRanges ==
    Planned =>
        /\ Len(s3_keys_to_process) = AtLeast0(runCount) * AtLeast0(hourCount)
        /\ Range(s3_keys_to_process) = PlannedPairs
        /\ PairwiseDistinct(s3_keys_to_process)

\* C17 witness: 48 hours back and three forecast hours give nine keys
C17_Witness ==
    /\ pc = "loop" /\ cursor = 1
    /\ args.num_hours = 48 /\ args.f_start = 0 /\ args.f_end = 2
    /\ Len(s3_keys_to_process) = 9

\* C18: in the plan every key of a more recent run date stands before
\* every key of an older one, within a run date the forecast hours
\* increase strictly, and the objects are fetched in the order of the
\* plan.
C18_RecentDatesFirstHoursAscending ==
    /\ \A p \in 1..Len(s3_keys_to_process) :
        \A q \in (p + 1)..Len(s3_keys_to_process) :
            LET a == s3_keys_to_process[p]
                b == s3_keys_to_process[q]
            IN  a[1] < b[1] \/ (a[1] = b[1] /\ a[2] < b[2])
    /\ calls = SubSeq(s3_keys_to_process, 1, Len(calls))
    /\ (InCall => CurrentKey = calls[Len(calls)] /\ Len(calls) = cursor)

\* C18 witness: a run over two run dates and two forecast hours has
\* fetched its four keys
C18_Witness ==
    /\ pc = "end" /\ exit = "returned"
    /\ calls = << Key(0, 1), Key(0, 2), Key(1, 1), Key(1, 2) >>

\* ------------------------------------------- configuration error claims

\* C19 (as claimed): a run whose plan is empty ends in an error outcome.
C19_EmptyPlanIsError ==
    (pc = "end" /\ config_error = "empty_plan") => ProcessStatus(exit) # 0

\* C20: after a configuration-level error (no connection, no table, a
\* malformed run date, an empty plan) the run is over: process_grib_file
\* was not called, nothing was downloaded, no temporary file was made,
\* the grid cache and the table are as they were.
C20_ConfigErrorAbortsBeforeAnyObject ==
    config_error # "" =>
        /\ pc \in {"finally", "end"}
        /\ calls = <<>>
        /\ \A k \in DOMAIN bucket : bucket[k] = Unseen
        /\ downloads_ok = 0
        /\ temp_files = {}
        /\ grid_cache = EmptyMap /\ builds = EmptyMap
        /\ submitted = <<>> /\ table = {}
        /\ totals = ZeroTotals

\* C20 witness: CREATE TABLE failed, and the run ended with its
\* connection closed
C20_Witness ==
    /\ pc = "end"
    /\ config_error = "create_error"
    /\ con = "closed"
    /\ PlanKeys(args) # <<>>

\* ----------------------------------------------- error handling claims

\* the batch of the current call was handed to executemany, which raised:
\* the key has no successful insert in this run
InsertRaised(key) == submitted # <<>> /\ key \notin DOMAIN last_grid

\* C21: when the batch insert raises, the result has status
\* processing_error and rows_inserted 0, the failed batch is not counted
\* in the rows attempted, the run goes on and the loop stands at the next
\* key.
C21_InsertFailureIsNonFatal ==
    /\ (pc \in {"cleanup", "aggregate"} /\ ~interrupted
            /\ InsertRaised(CurrentKey)) =>
            /\ result.status = "processing_error"
            /\ result.rows_inserted = 0
            /\ result.messages_scanned = scan.messages_scanned_in_file
    /\ (pc = "loop" /\ cursor > 1
            /\ InsertRaised(s3_keys_to_process[cursor - 1])) =>
            /\ exit = ""
            /\ cursor = Len(calls) + 1
            /\ totals.total_rows_attempted_insert = rows_submitted

\* C21 witness: the key behind one whose batch insert raised is being
\* processed; the failed batch counts as no rows
C21_Witness ==
    /\ pc = "grid" /\ cursor = 2
    /\ s3_keys_to_process[1] \notin DOMAIN last_grid
    /\ totals.files_with_processing_errors = 1
    /\ totals.total_messages_scanned = 1
    /\ totals.total_rows_attempted_insert = 0

\* the messages of the file up to the first one that cannot be decoded
Decoded(file) ==
    {m \in 1..Len(file.msgs) : \A k \in 1..m : file.msgs[k].readable}

CatalogNames == {target_vars[t].user_name : t \in 1..Len(target_vars)}

\* C22 (as claimed): a catalog variable is reported as observed exactly
\* when a message of a downloaded, grid-resolved object matched its entry;
\* the names observed are names of the catalog.
C22_ObservedIffMatched ==
    /\ totals.targets_found \subseteq CatalogNames
    /\ Extracted =>
            /\ \A m \in Decoded(CurrentFile) :
                    FirstAccepting(CurrentFile.msgs[m]) # 0 =>
                        target_vars[FirstAccepting(CurrentFile.msgs[m])].user_name
                            \in result.variables_found_in_file
            /\ \A name \in result.variables_found_in_file :
                    \E t \in 1..Len(target_vars) : \E m \in Decoded(CurrentFile) :
                        /\ target_vars[t].user_name = name
                        /\ Accepts(target_vars[t], CurrentFile.msgs[m])
    /\ (pc = "loop" => result.variables_found_in_file \subseteq totals.targets_found)

\* C23: in every cache entry, a target point that has the coordinates of
\* a grid point (longitudes shifted into -180..180) is resolved to a grid
\* point with exactly these coordinates.
C23_CoincidentTargetResolvesToItself ==
    \A sig \in DOMAIN grid_cache :
        LET e == grid_cache[sig] IN
        \A i \in 1..Len(target_points) :
            (\E j \in 1..Len(e.lats) :
                    /\ e.lats[j] = target_points[i][1]
                    /\ e.lons[j] = target_points[i][2]) =>
                /\ e.lats[e.indices[i] + 1] = target_points[i][1]
                /\ e.lons[e.indices[i] + 1] = target_points[i][2]

\* C23 witness: the target at longitude -90 is resolved to the grid point
\* the file gives at longitude 270
C23_Witness ==
    /\ pc = "extract"
    /\ CurrentFile.lons = <<0, 270>>
    /\ grid.lons = <<0, -90>>
    /\ grid.indices = <<0, 1>>
    /\ target_points[2] = <<0, -90>>

\* C24: when the read of a declared attribute fails, the entry declaring
\* it does not match (no row of the message carries its name), the next
\* entries are still tried (the first entry that can be read and fits is
\* found), the message counts as scanned and the file is not in error.
C24_AttributeReadFailureRejectsEntryOnly ==
    (Extracted /\ AllReadable(CurrentFile)) =>
        LET msgs == CurrentFile.msgs IN
        \A m \in 1..Len(msgs) :
            (ReadFails(msgs[m]) \cap DOMAIN msgs[m].attrs # {}) =>
                /\ \A t \in 1..Len(target_vars) :
                        Declared(target_vars[t]) \cap ReadFails(msgs[m]) # {}
                            => \A r \in Range(rows_to_insert) :
                                ~(/\ r.variable = target_vars[t].user_name
                                  /\ r.value \in Range(msgs[m].values))
                /\ (FirstAccepting(msgs[m]) # 0 =>
                        target_vars[FirstAccepting(msgs[m])].user_name
                            \in scan.variables_found_in_file)
                /\ (Extractable(msgs[m]) =>
                        \E r \in Range(rows_to_insert) :
                            /\ r.value \in Range(msgs[m].values)
                            /\ r.variable =
                                target_vars[FirstAccepting(msgs[m])].user_name)
                /\ result.messages_scanned = Len(msgs)
                /\ (result.status = "processed" \/ submitted # <<>>)

\* C24 witness: the level of a 2 m temperature message could not be
\* read; the message was taken by the entry that declares no level
C24_Witness ==
    /\ pc = "cleanup" /\ result.status = "processed"
    /\ CurrentFile = FileBadAttr
    /\ result.variables_found_in_file = {"temperature", "surface_pressure"}
    /\ result.messages_scanned = 2
    /\ result.rows_inserted = 4

\* extracting the matched message raises: its values cannot be read or
\* its time field is no time of day
ExtractionFails(msg) ==
    /\ FirstAccepting(msg) # 0
    /\ \/ "values" \in ReadFails(msg)
       \/ (SizeFits(msg) /\ ~TimeParses(msg))

\* C25: an error raised while a matched message is extracted gives no row
\* of that message and nothing else: the other messages of the object
\* give their rows, all messages are scanned, and the batch is submitted
\* with status processed.
C25_ExtractionErrorConfinedToMessage ==
    (Extracted /\ AllReadable(CurrentFile)) =>
        LET msgs == CurrentFile.msgs IN
        \A m \in 1..Len(msgs) :
            ExtractionFails(msgs[m]) =>
                /\ \A r \in Range(rows_to_insert) :
                        r.value \notin Range(msgs[m].values)
                /\ \A k \in 1..Len(msgs) :
                        Extractable(msgs[k]) =>
                            \A i \in 1..Len(grid.indices) :
                                ValueAt(msgs[k], i) # NaN =>
                                    \E r \in Range(rows_to_insert) :
                                        r.value = ValueAt(msgs[k], i)
                /\ result.messages_scanned = Len(msgs)
                /\ (rows_to_insert # <<>> => submitted = <<rows_to_insert>>)
                /\ \/ result.status = "processed"
                   \/ InsertRaised(CurrentKey)

\* C25 witness: of four messages the second has no valid time and the
\* values of the third cannot be read; the rows of the first and of the
\* fourth were inserted
C25_Witness ==
    /\ pc = "cleanup" /\ result.status = "processed"
    /\ CurrentFile = FileBadExtract
    /\ result.messages_scanned = 4
    /\ result.rows_inserted = 4
    /\ rows_to_insert[1].value = 270
    /\ rows_to_insert[4].value = 1011

\* C26: an object gets at most one batch insert; the batch holds all rows
\* extracted from the object; it is submitted only after the download
\* succeeded, the grid was resolved and every message of the object was
\* scanned without an exception; the table changes in no other stage.
C26_OneBatchAfterCompleteScan ==
    /\ [](/\ Len(submitted) <= 1
          /\ (pc \in {"download", "grid", "extract", "insert"}
                => submitted = <<>>)
          /\ (pc = "insert" =>
                dl = "ok" /\ grid # NoGrid /\ AllReadable(CurrentFile))
          /\ ((pc \in {"cleanup", "aggregate"} /\ submitted # <<>>) =>
                /\ dl = "ok" /\ grid # NoGrid
                /\ grid = grid_cache[CurrentFile.sig]
                /\ AllReadable(CurrentFile)
                /\ scan.messages_scanned_in_file = Len(CurrentFile.msgs)
                /\ submitted[1] # <<>>
                /\ submitted[1] =
                     _extract_data_from_messages(CurrentFile, grid,
                        SourcePath(CurrentKey)).rows))
    /\ [][table' # table =>
            /\ pc = "insert" /\ submitted = <<>>
            /\ submitted' = <<rows_to_insert>>]_vars

\* C26 witness: the two rows extracted from an object were submitted as
\* one batch and are in the table
C26_Witness ==
    /\ pc = "cleanup" /\ ~interrupted
    /\ submitted = <<rows_to_insert>>
    /\ Len(rows_to_insert) = 2
    /\ Range(rows_to_insert) \subseteq table
    /\ table # pre.table
    /\ result.status = "processed"

\* C27: every entry of the grid cache has latitude and longitude arrays
\* of one non-zero length, longitudes between -180 and 180, and one index
\* for each target point, each index a 0-based position in the arrays.
C27_CacheEntriesWellFormed ==
    \A sig \in DOMAIN grid_cache :
        LET e == grid_cache[sig] IN
        /\ Len(e.lats) > 0
        /\ Len(e.lats) = Len(e.lons)
        /\ \A j \in 1..Len(e.lons) : -180 <= e.lons[j] /\ e.lons[j] <= 180
        /\ Len(e.indices) = Len(target_points)
        /\ \A i \in 1..Len(e.indices) :
                0 <= e.indices[i] /\ e.indices[i] < Len(e.lats)

\* C27 witness: an entry built from a grid with a longitude of 270 stays
\* in the cache while the next key is due
C27_Witness ==
    /\ pc = "loop" /\ cursor = 2
    /\ bucket[s3_keys_to_process[1]] # Absent
    /\ bucket[s3_keys_to_process[1]].lons = <<0, 270>>
    /\ \E sig \in DOMAIN grid_cache :
            /\ grid_cache[sig].lons = <<0, -90>>
            /\ Len(grid_cache[sig].indices) = 2

\* the peek succeeds and the file gives a usable grid
ValidGrid(file) ==
    file.first_ok /\ file.meta_ok /\ ValidCoords(file.lats, file.lons)

\* C28: a call whose grid resolution failed leaves the cache as it was at
\* the start of the call, and fails only for a file that is unusable
\* itself; a cache hit leaves the cache unchanged; a miss adds the entry
\* of the file's signature and touches no other entry.
C28_FailedResolutionLeavesCache ==
    /\ (Returned /\ result.status = "skipped_no_grid") =>
            /\ grid_cache = pre.grid_cache
            /\ ~ValidGrid(CurrentFile)
    /\ (pc \in {"extract", "insert", "cleanup", "aggregate"}
            /\ dl = "ok" /\ grid # NoGrid) =>
            IF CurrentFile.sig \in DOMAIN pre.grid_cache
            THEN grid_cache = pre.grid_cache
            ELSE /\ ValidGrid(CurrentFile)
                 /\ DOMAIN grid_cache =
                        DOMAIN pre.grid_cache \cup {CurrentFile.sig}
                 /\ \A s \in DOMAIN pre.grid_cache :
                        grid_cache[s] = pre.grid_cache[s]
    /\ (pc \in {"download", "grid"} => grid_cache = pre.grid_cache)

\* C28 witness: the first object had a grid of mismatched sizes and was
\* skipped; the second one, of the same signature, is resolved and cached
C28_Witness ==
    /\ pc = "extract" /\ cursor = 2
    /\ bucket[s3_keys_to_process[1]] = FileMismatchA
    /\ totals.files_skipped_no_grid = 1
    /\ CurrentFile.sig = FileMismatchA.sig
    /\ pre.grid_cache = EmptyMap
    /\ DOMAIN grid_cache = {CurrentFile.sig}
    /\ builds[CurrentFile.sig] = 1

\* every acquisition in the log is directly followed by the release of
\* the same handle, and no handle is acquired twice
Bracketed(log) ==
    /\ Len(log) % 2 = 0
    /\ \A k \in 1..Len(log) :
            IF k % 2 = 1
            THEN /\ log[k] = Acquire(log[k][2])
                 /\ log[k + 1] = Release(log[k][2])
            ELSE log[k][1] = "release"
    /\ \A k \in 2..Len(log) : \A j \in 2..Len(log) :
            (k % 2 = 0 /\ j % 2 = 0 /\ j # k) => log[j][2] # log[k][2]

\* C29: in every state between the steps of a call each handle acquired
\* so far has been released, once, before the next one was acquired: the
\* peek handle whenever the first message could be decoded, and one
\* handle for every message decoded by the scan, also when the scan or
\* the reading of the grid keys ended in an exception.
C29_HandlesReleasedOnce ==
    /\ Bracketed(handle_log)
    /\ (pc \in {"download", "grid"} => handle_log = <<>>)
    /\ (pc = "extract" => handle_log = <<Acquire(0), Release(0)>>)
    /\ (pc \in {"cleanup", "aggregate"} /\ dl = "ok" /\ result # NoResult
            /\ result.status = "skipped_no_grid") =>
            Len(handle_log) = (IF CurrentFile.first_ok THEN 2 ELSE 0)
    /\ Extracted =>
            Len(handle_log) = 2 * (1 + Cardinality(Decoded(CurrentFile)))

\* C29 witness: the scan raised at the second message; the peek handle
\* and the handle of the first message were acquired and released
C29_Witness ==
    /\ pc = "cleanup" /\ ~interrupted /\ dl = "ok"
    /\ result.status = "processing_error"
    /\ ~AllReadable(CurrentFile)
    /\ handle_log = <<Acquire(0), Release(0), Acquire(1), Release(1)>>

\* C30: the connection is opened by the first step of ingest only,
\* stays open while objects are processed, and is closed by the finally
\* clause, once, however ingest is left; the table changes only while it
\* is open. A run that could not connect has nothing to close.
C30_ConnectionClosedOnEveryExit ==
    /\ [](/\ (InCall \/ pc \in {"plan", "loop", "aggregate"}) => con = "open"
          /\ pc = "end" =>
                IF config_error = "connect_error" THEN con = "none"
                ELSE con = "closed")
    /\ [][con' # con =>
            \/ pc = "connect" /\ con = "none" /\ con' = "open"
            \/ pc = "finally" /\ con = "open" /\ con' = "closed"
            \/ pc = "end" /\ pc' = "connect" /\ con' = "none"]_vars
    /\ [][table' # table => con = "open" /\ con' = "open"]_vars

\* C30 witness: the run date was malformed, ingest left by sys.exit(1)
\* and the connection is closed
C30_Witness ==
    /\ pc = "end" /\ exit = "exit1"
    /\ config_error = "run_date"
    /\ con = "closed"
    /\ calls = <<>>

\* ------------------------------------------------- accounting claims

StatusValues ==
    {"processed", "skipped_no_grid", "not_found", "download_error",
     "processing_error"}

\* C31: the five category counters of the run add up to the number of
\* keys the loop has finished, and the count of downloaded files is the
\* sum of the processed, the skipped and the processing-error files.
C31_CategoriesPartitionProcessedKeys ==
    /\ totals.files_processed_ok + totals.files_skipped_no_grid
            + totals.files_not_found + totals.files_with_download_errors
            + totals.files_with_processing_errors = cursor - 1
    /\ totals.files_successfully_downloaded
            = totals.files_processed_ok + totals.files_skipped_no_grid
                + totals.files_with_processing_errors
    /\ (pc = "loop" => cursor - 1 = Len(calls))

\* C31 witness: two keys are done, one of them skipped for its grid and
\* one absent from the bucket
C31_Witness ==
    /\ pc = "loop" /\ cursor = 3
    /\ totals.files_skipped_no_grid = 1
    /\ totals.files_not_found = 1
    /\ totals.files_successfully_downloaded = 1

\* C32: a result process_grib_file returns has one of the five statuses;
\* rows are counted for a processed object only; an object that was not
\* found, not downloaded or skipped for its grid has no messages scanned,
\* no rows and no variables found.
C32_ResultWellFormed ==
    Returned =>
        /\ result.status \in StatusValues
        /\ (result.rows_inserted > 0 => result.status = "processed")
        /\ (result.status \in {"not_found", "download_error",
                                "skipped_no_grid"} =>
                /\ result.messages_scanned = 0
                /\ result.rows_inserted = 0
                /\ result.variables_found_in_file = {})

\* C32 witness: an object whose messages matched nothing is returned as
\* processed with messages scanned and no rows
C32_Witness ==
    /\ pc = "aggregate"
    /\ result.status = "processed"
    /\ result.messages_scanned > 0
    /\ result.rows_inserted = 0
    /\ result.variables_found_in_file = {}
    /\ submitted = <<>>

TempFileOf(k) == <<run, k>>

\* C34 (as claimed): main() removes the temporary file of every object:
\* when the next key is begun, and when the run has ended, no temporary
\* file of an earlier key exists (a file whose removal raised aside).
C34_NoEarlierTempFileRemains ==
    /\ (pc = "m_download" =>
            \A k \in 1..(cursor - 1) : TempFileOf(k) \notin temp_files)
    /\ (pc = "end" =>
            \A k \in 1..(Len(calls) - 1) :
                TempFileOf(k) \notin temp_files \ remove_failed)

RECURSIVE RowsIn(_)
RowsIn(batches) ==
    IF batches = <<>> THEN 0 ELSE Len(Head(batches)) + RowsIn(Tail(batches))

\* C35 (as claimed): the total main() reports as rows attempted is the
\* number of rows handed to executemany over the run, each counted once.
C35_TotalIsRowsSubmitted ==
    (pc \in {"m_loop", "m_finally", "end"}) =>
        totals.total_rows_inserted = RowsIn(submitted)

====
